---- MODULE Spec2Model ----
(***************************************************************************)
(* Model of the "Smart Gatekeeper" (gatekeeper.js, n-gram version), of the *)
(* chat controller that drives it (main.js) and of the LLM stub (api.js).  *)
(*                                                                         *)
(* A text is a sequence of atoms.  An atom stands for a fixed run of       *)
(* characters: a run of lower-case letters ("hello"), the same run in      *)
(* upper case ("HELLO"), one punctuation character ("!") or one white      *)
(* space character (" ").  No atom is a prefix of another, so two texts    *)
(* are the same JavaScript string exactly when they are the same sequence. *)
(* The Cyrillic seed phrases are written in Latin transliteration with the *)
(* prefix "ru_", which keeps them distinct from the Latin ones.            *)
(***************************************************************************)
EXTENDS Integers, Sequences, FiniteSets, TLC

VARIABLES
    brain,          \* gatekeeper.brain
    isInitialized,  \* gatekeeper.isInitialized
    storage,        \* localStorage item 'gatekeeper_brain_v1_multi'
    session,        \* "loading": page constructed, init() not yet called; "ready": init() returned or threw
                    \* and no script runs; "learning": a learnFromFeedback call is between two statements
    last,           \* the most recent gatekeeper call and what it returned
    learned,        \* history: the learning events (seed and learnFromFeedback) of the run
    origin,         \* history: how the first session of the run got its brain
    learnCount,     \* number of learnFromFeedback calls so far (bounded by MaxLearn)
    lastQuery,      \* main.js: let lastQuery
    isBotThinking,  \* main.js: let isBotThinking
    sendBtnDisabled,\* main.js: ui.sendBtn.disabled
    pending,        \* main.js: the userText of the handleSendMessage awaiting serverLLM.getResponse
    panel,          \* main.js: which of feedback-container / teach-container is visible
    teachQuery,     \* main.js: ui.teachQuery.textContent
    chat,           \* main.js: the last message appended to the chat for each sender
    instruction,    \* history: the learning instruction carried out last, until its query is sent again
    serverCalls,    \* history: number of serverLLM.getResponse calls so far
    sends           \* history: number of accepted user messages so far (bounded by MaxSends)

gvars == <<brain, isInitialized, storage, session, last, learned, origin, learnCount>>
rvars == <<lastQuery, isBotThinking, sendBtnDisabled, pending, panel, teachQuery, chat,
           instruction, serverCalls, sends>>
vars == <<brain, isInitialized, storage, session, last, learned, origin, learnCount,
          lastQuery, isBotThinking, sendBtnDisabled, pending, panel, teachQuery, chat,
          instruction, serverCalls, sends>>

(***************************************************************************)
(* Bounds of the model.                                                    *)
(***************************************************************************)
MaxWords == 2

MaxLearn == 2

MaxSends == 3

(***************************************************************************)
(* Texts.                                                                  *)
(***************************************************************************)
Space == " "

Punctuation == {"!"}

Whitespace == {Space}

\* JavaScript values that are not texts of the model.
Null == "null"

Undefined == "undefined"

ObjectPrototype == "[object Object]"

Fallback == "Okay!"

\* A JavaScript value is truthy unless it is undefined, null or the empty string.
Truthy(v) == v \notin {Undefined, Null, ""}

\* The newResponse arguments of learnFromFeedback.
Responses == {Null, "Hi!"}

\* The texts the callers pass to learnFromFeedback.
Phrases ==
    { <<"HELLO", Space, "world", "!">>,
      <<"__proto__">>,
      <<"!">> }

\* The texts the callers pass to classify and getSimpleResponse.
Queries ==
    { <<"HELLO", "!">>,
      <<"hello", Space, "there">>,
      <<"world", Space, "hello">>,
      <<Space, "!">> }

\* The words of the texts the properties range over: two seed words, two that the seed lacks.
Words == {"hello", "there", "world", "__proto__"}

RECURSIVE PlainTexts(_)
PlainTexts(n) ==
    IF n = 0 THEN {<<>>}
    ELSE PlainTexts(n - 1) \cup
         {IF t = <<>> THEN <<w>> ELSE t \o <<Space, w>> :
             t \in {u \in PlainTexts(n - 1) : Len(u) = 2 * n - 3 \/ (n = 1 /\ u = <<>>)}, w \in Words}

\* The same text as a user may type it: leading blank, "hello" in capitals, final "!".
Shouted(text) ==
    <<Space>> \o [i \in DOMAIN text |-> IF text[i] = "hello" THEN "HELLO" ELSE text[i]] \o <<"!">>

\* Every text of up to MaxWords words, plain and shouted, and the texts the callers pass.
Texts ==
    PlainTexts(MaxWords) \cup {Shouted(t) : t \in PlainTexts(MaxWords)} \cup Phrases \cup Queries

Range(s) == {s[i] : i \in DOMAIN s}

(***************************************************************************)
(* String.prototype.toLowerCase, replace(/[.,!?;:]/g, ''), trim, split.    *)
(***************************************************************************)
toLowerCaseAtom(a) ==
    CASE a = "HELLO" -> "hello"
      [] a = "THX"   -> "thx"
      [] OTHER       -> a

toLowerCase(text) == [i \in DOMAIN text |-> toLowerCaseAtom(text[i])]

removePunctuation(text) == SelectSeq(text, LAMBDA a : a \notin Punctuation)

RECURSIVE trimStart(_)
trimStart(text) ==
    IF text # <<>> /\ Head(text) \in Whitespace THEN trimStart(Tail(text)) ELSE text

RECURSIVE trimEnd(_)
trimEnd(text) ==
    IF text # <<>> /\ text[Len(text)] \in Whitespace
    THEN trimEnd(SubSeq(text, 1, Len(text) - 1))
    ELSE text

trim(text) == trimEnd(trimStart(text))

\* Variant: trim() is called before the punctuation is removed.
normalizeTextTrimsFirst(text) == removePunctuation(trim(toLowerCase(text)))

normalizeText(text) == trim(removePunctuation(toLowerCase(text)))

\* text.split(/\s+/).filter(w => w.length > 0): the maximal runs of non-whitespace atoms.
RECURSIVE splitFrom(_, _, _)
splitFrom(text, cur, acc) ==
    IF text = <<>>
    THEN IF cur = <<>> THEN acc ELSE Append(acc, cur)
    ELSE IF Head(text) \in Whitespace
         THEN splitFrom(Tail(text), <<>>, IF cur = <<>> THEN acc ELSE Append(acc, cur))
         ELSE splitFrom(Tail(text), Append(cur, Head(text)), acc)

splitWords(text) == splitFrom(text, <<>>, <<>>)

\* `${words[i]} ${words[i+1]}`
bigram(w1, w2) == w1 \o <<Space>> \o w2

bigramsOf(words) == [i \in 1..(Len(words) - 1) |-> bigram(words[i], words[i + 1])]

(***************************************************************************)
(* JavaScript containers.  A Set is its elements in insertion order.  A    *)
(* plain object is its own properties in insertion order; "__proto__" is   *)
(* an accessor inherited from Object.prototype: reading it gives the       *)
(* prototype object and assigning a primitive to it does nothing.          *)
(***************************************************************************)
ProtoKey == <<"__proto__">>

setHas(set, x) == \E i \in DOMAIN set : set[i] = x

setAdd(set, x) == IF setHas(set, x) THEN set ELSE Append(set, x)

RECURSIVE setAddAll(_, _)
setAddAll(set, xs) ==
    IF xs = <<>> THEN set ELSE setAddAll(setAdd(set, Head(xs)), Tail(xs))

\* new Set(array)
setFromArray(array) == setAddAll(<<>>, array)

\* Array.from(set)
arrayFromSet(set) == [i \in 1..Len(set) |-> set[i]]

hasOwnProperty(obj, k) == \E i \in DOMAIN obj : obj[i].key = k

objGet(obj, k) ==
    IF hasOwnProperty(obj, k)
    THEN (CHOOSE e \in Range(obj) : e.key = k).value
    ELSE IF k = ProtoKey THEN ObjectPrototype ELSE Undefined

objSet(obj, k, v) ==
    IF hasOwnProperty(obj, k)
    THEN [i \in DOMAIN obj |-> IF obj[i].key = k THEN [key |-> k, value |-> v] ELSE obj[i]]
    ELSE IF k = ProtoKey THEN obj
    ELSE Append(obj, [key |-> k, value |-> v])

objKeys(obj) == {obj[i].key : i \in DOMAIN obj}

(***************************************************************************)
(* gatekeeper.js: the gatekeeper object.                                   *)
(***************************************************************************)
\* The object literal `brain` of gatekeeper.
constructedBrain ==
    [vocab           |-> <<>>,
     simpleVocab     |-> <<>>,
     simpleNgrams    |-> <<>>,
     categories      |-> <<"simple", "complex">>,
     simpleResponses |-> <<>>,
     memory          |-> <<>>]

\* Index of the first element of xs that `set` does not hold, 0 if it holds all:
\* the loops of classify return at the first element they miss.
RECURSIVE firstMissing(_, _, _)
firstMissing(set, xs, i) ==
    IF i > Len(xs) THEN 0
    ELSE IF ~setHas(set, xs[i]) THEN i
    ELSE firstMissing(set, xs, i + 1)

\* Variant: the exact match is looked up after the word and bigram checks.
classifyRulesExactMatchLast(b, text) ==
    LET normalizedText == normalizeText(text)
        words == splitWords(normalizedText)
    IN  IF Len(words) = 0 THEN "simple"
        ELSE IF firstMissing(b.simpleVocab, words, 1) # 0
             THEN IF hasOwnProperty(b.simpleResponses, normalizedText) THEN "simple" ELSE "complex"
        ELSE IF Len(words) > 1 /\ firstMissing(b.simpleNgrams, bigramsOf(words), 1) # 0
             THEN "complex"
        ELSE "simple"

\* Variant: no unknown-word check.
classifyRulesWithoutWordCheck(b, text) ==
    LET normalizedText == normalizeText(text)
        words == splitWords(normalizedText)
    IN  IF hasOwnProperty(b.simpleResponses, normalizedText) THEN "simple"
        ELSE IF Len(words) = 0 THEN "simple"
        ELSE IF Len(words) > 1 /\ firstMissing(b.simpleNgrams, bigramsOf(words), 1) # 0
             THEN "complex"
        ELSE "simple"

\* Variant: no bigram check, as in the version of classify without n-grams.
classifyRulesWithoutBigrams(b, text) ==
    LET normalizedText == normalizeText(text)
        words == splitWords(normalizedText)
    IN  IF hasOwnProperty(b.simpleResponses, normalizedText) THEN "simple"
        ELSE IF Len(words) = 0 THEN "simple"
        ELSE IF firstMissing(b.simpleVocab, words, 1) # 0 THEN "complex"
        ELSE "simple"

\* Variant: the pair loop runs one index too far (i < words.length), so the last
\* pair of a query of two or more words is "word undefined" and is never known.
classifyRulesPairsPastEnd(b, text) ==
    LET normalizedText == normalizeText(text)
        words == splitWords(normalizedText)
    IN  IF hasOwnProperty(b.simpleResponses, normalizedText) THEN "simple"
        ELSE IF Len(words) = 0 THEN "simple"
        ELSE IF firstMissing(b.simpleVocab, words, 1) # 0 THEN "complex"
        ELSE IF Len(words) > 1 THEN "complex"
        ELSE "simple"

\* classify once isInitialized is known to be true: rules 1 to 3.
classifyRules(b, text) ==
    LET normalizedText == normalizeText(text)
        words == splitWords(normalizedText)
    IN  IF hasOwnProperty(b.simpleResponses, normalizedText) THEN "simple"
        ELSE IF Len(words) = 0 THEN "simple"
        ELSE IF firstMissing(b.simpleVocab, words, 1) # 0 THEN "complex"
        ELSE IF Len(words) > 1 /\ firstMissing(b.simpleNgrams, bigramsOf(words), 1) # 0
             THEN "complex"
        ELSE "simple"

\* Variant: no isInitialized guard.
classifyUnguarded(b, initialized, text) == classifyRules(b, text)

classify(b, initialized, text) ==
    IF ~initialized THEN "complex" ELSE classifyRules(b, text)

\* Variant: no `|| "Okay!"`.
getSimpleResponseNoFallback(b, text) == objGet(b.simpleResponses, normalizeText(text))

getSimpleResponse(b, text) ==
    LET normalizedText == normalizeText(text)
        stored == objGet(b.simpleResponses, normalizedText)
    IN  IF Truthy(stored) THEN stored ELSE Fallback

\* text.split(/\s+/).forEach(word => { if (word && !vocab.hasOwnProperty(word)) vocab[word] = Object.keys(vocab).length })
RECURSIVE updateVocabWords(_, _)
updateVocabWords(vocab, words) ==
    IF words = <<>> THEN vocab
    ELSE updateVocabWords(
             IF ~hasOwnProperty(vocab, Head(words))
             THEN objSet(vocab, Head(words), Len(vocab))
             ELSE vocab,
             Tail(words))

updateVocab(vocab, text) == updateVocabWords(vocab, splitWords(text))

memoryHas(memory, input) == \E i \in DOMAIN memory : memory[i].input = input

\* Variant: the words and bigrams are learned whatever the category.
learnFromFeedbackAnyCategory(b, text, correctCategory, newResponse) ==
    LET normalizedText == normalizeText(text)
        words == splitWords(normalizedText)
        simple == correctCategory = "simple"
    IN  [b EXCEPT
           !.simpleResponses =
               IF simple /\ Truthy(newResponse) THEN objSet(@, normalizedText, newResponse) ELSE @,
           !.simpleVocab = setAddAll(@, words),
           !.simpleNgrams = IF Len(words) > 1 THEN setAddAll(@, bigramsOf(words)) ELSE @,
           !.vocab = updateVocab(@, normalizedText),
           !.memory =
               IF ~memoryHas(@, normalizedText)
               THEN Append(@, [input |-> normalizedText, category |-> correctCategory])
               ELSE @]

\* Variant: the memory record is appended without looking for an earlier one.
learnFromFeedbackAlwaysAppends(b, text, correctCategory, newResponse) ==
    LET normalizedText == normalizeText(text)
        words == splitWords(normalizedText)
        simple == correctCategory = "simple"
    IN  [b EXCEPT
           !.simpleResponses =
               IF simple /\ Truthy(newResponse) THEN objSet(@, normalizedText, newResponse) ELSE @,
           !.simpleVocab = IF simple THEN setAddAll(@, words) ELSE @,
           !.simpleNgrams = IF simple /\ Len(words) > 1 THEN setAddAll(@, bigramsOf(words)) ELSE @,
           !.vocab = updateVocab(@, normalizedText),
           !.memory = Append(@, [input |-> normalizedText, category |-> correctCategory])]

\* Variant: the adjacent pairs of a simple phrase are not learned.
learnFromFeedbackWithoutBigrams(b, text, correctCategory, newResponse) ==
    LET normalizedText == normalizeText(text)
        words == splitWords(normalizedText)
        simple == correctCategory = "simple"
    IN  [b EXCEPT
           !.simpleResponses =
               IF simple /\ Truthy(newResponse) THEN objSet(@, normalizedText, newResponse) ELSE @,
           !.simpleVocab = IF simple THEN setAddAll(@, words) ELSE @,
           !.vocab = updateVocab(@, normalizedText),
           !.memory =
               IF ~memoryHas(@, normalizedText)
               THEN Append(@, [input |-> normalizedText, category |-> correctCategory])
               ELSE @]

\* Variant: the response is never stored.
learnFromFeedbackIgnoresResponse(b, text, correctCategory, newResponse) ==
    LET normalizedText == normalizeText(text)
        words == splitWords(normalizedText)
        simple == correctCategory = "simple"
    IN  [b EXCEPT
           !.simpleVocab = IF simple THEN setAddAll(@, words) ELSE @,
           !.simpleNgrams = IF simple /\ Len(words) > 1 THEN setAddAll(@, bigramsOf(words)) ELSE @,
           !.vocab = updateVocab(@, normalizedText),
           !.memory =
               IF ~memoryHas(@, normalizedText)
               THEN Append(@, [input |-> normalizedText, category |-> correctCategory])
               ELSE @]

\* Variant: a "complex" learning event deletes the stored response of the text.
learnFromFeedbackComplexForgets(b, text, correctCategory, newResponse) ==
    LET normalizedText == normalizeText(text)
        words == splitWords(normalizedText)
        simple == correctCategory = "simple"
    IN  [b EXCEPT
           !.simpleResponses =
               IF simple /\ Truthy(newResponse) THEN objSet(@, normalizedText, newResponse)
               ELSE IF ~simple THEN SelectSeq(@, LAMBDA e : e.key # normalizedText)
               ELSE @,
           !.simpleVocab = IF simple THEN setAddAll(@, words) ELSE @,
           !.simpleNgrams = IF simple /\ Len(words) > 1 THEN setAddAll(@, bigramsOf(words)) ELSE @,
           !.vocab = updateVocab(@, normalizedText),
           !.memory =
               IF ~memoryHas(@, normalizedText)
               THEN Append(@, [input |-> normalizedText, category |-> correctCategory])
               ELSE @]

learnFromFeedback(b, text, correctCategory, newResponse) ==
    LET normalizedText == normalizeText(text)
        words == splitWords(normalizedText)
        simple == correctCategory = "simple"
    IN  [b EXCEPT
           !.simpleResponses =
               IF simple /\ Truthy(newResponse) THEN objSet(@, normalizedText, newResponse) ELSE @,
           !.simpleVocab = IF simple THEN setAddAll(@, words) ELSE @,
           !.simpleNgrams = IF simple /\ Len(words) > 1 THEN setAddAll(@, bigramsOf(words)) ELSE @,
           !.vocab = updateVocab(@, normalizedText),
           !.memory =
               IF ~memoryHas(@, normalizedText)
               THEN Append(@, [input |-> normalizedText, category |-> correctCategory])
               ELSE @]

\* JSON.stringify({...brain, simpleVocab: Array.from(simpleVocab), simpleNgrams: Array.from(simpleNgrams)})
saveBrain(b) ==
    [kind            |-> "json",
     vocab           |-> b.vocab,
     simpleVocab     |-> arrayFromSet(b.simpleVocab),
     simpleNgrams    |-> arrayFromSet(b.simpleNgrams),
     categories      |-> b.categories,
     simpleResponses |-> b.simpleResponses,
     memory          |-> b.memory]

\* The item the version of gatekeeper.js without n-grams wrote under the same key.
saveBrainV1(b) ==
    [kind            |-> "json",
     vocab           |-> b.vocab,
     simpleVocab     |-> arrayFromSet(b.simpleVocab),
     categories      |-> b.categories,
     simpleResponses |-> b.simpleResponses,
     memory          |-> b.memory]

\* localStorage holds no item under the key.
NoItem == [kind |-> "absent"]

\* localStorage holds an item that JSON.parse rejects.
MalformedItem == [kind |-> "malformed"]

Simple(input, response) == [input |-> input, category |-> "simple", response |-> response]

Complex(input) == [input |-> input, category |-> "complex", response |-> Undefined]

initialMemory ==
    << Simple(<<"hello">>, "Hello there!"),
       Simple(<<"hi">>, "Hi!"),
       Simple(<<"hey">>, "Hey!"),
       Simple(<<"hello", Space, "there">>, "Hello to you too!"),
       Simple(<<"how", Space, "are", Space, "you">>, "I'm doing great, thanks for asking!"),
       Simple(<<"thanks">>, "You're welcome!"),
       Simple(<<"thank", Space, "you">>, "Happy to help!"),
       Simple(<<"thx">>, "Anytime!"),
       Simple(<<"ty">>, "No problem!"),
       Simple(<<"ok">>, "Got it."),
       Simple(<<"okay">>, "Alright."),
       Simple(<<"bye">>, "See you later!"),
       Simple(<<"goodbye">>, "Goodbye!"),
       Simple(<<"ru_privet">>, "ru_Privetstvuyu!"),
       Simple(<<"ru_zdravstvuy">>, "ru_Zdravstvuyte!"),
       Simple(<<"ru_kak", Space, "ru_dela">>, "ru_Vse otlichno, spasibo!"),
       Simple(<<"ru_spasibo">>, "ru_Pozhaluysta!"),
       Simple(<<"ru_blagodaryu">>, "ru_Rad pomoch!"),
       Simple(<<"ru_sps">>, "ru_Ne za chto!"),
       Simple(<<"ru_poka">>, "ru_Do skoroy vstrechi!"),
       Simple(<<"ru_horosho">>, "ru_Otlichno!"),
       Simple(<<"ru_ok">>, "ru_Prinyato."),
       Complex(<<"tell", Space, "me", Space, "a", Space, "joke">>),
       Complex(<<"what", Space, "is", Space, "the", Space, "weather", Space, "in", Space, "london">>),
       Complex(<<"ru_rasskazhi", Space, "ru_anekdot">>),
       Complex(<<"ru_kto", Space, "ru_takoy", Space, "ru_isaak", Space, "ru_nyuton">>),
       Complex(<<"compare", Space, "javascript", Space, "and", Space, "python">>) >>

\* The body of initialMemory.forEach for one entry.
prepareEntry(b, mem) ==
    LET normalizedInput == normalizeText(mem.input)
        words == splitWords(normalizedInput)
        simple == mem.category = "simple"
    IN  [b EXCEPT
           !.memory = Append(@, [input |-> normalizedInput, category |-> mem.category]),
           !.vocab = updateVocab(@, normalizedInput),
           !.simpleResponses = IF simple THEN objSet(@, normalizedInput, mem.response) ELSE @,
           !.simpleVocab = IF simple THEN setAddAll(@, words) ELSE @,
           !.simpleNgrams = IF simple /\ Len(words) > 1 THEN setAddAll(@, bigramsOf(words)) ELSE @]

RECURSIVE prepareFrom(_, _)
prepareFrom(b, i) ==
    IF i > Len(initialMemory) THEN b ELSE prepareFrom(prepareEntry(b, initialMemory[i]), i + 1)

prepareInitialBrain(b) == prepareFrom(b, 1)

\* loadedBrain.field || []
arrayOrEmpty(loadedBrain, field) ==
    IF field \in DOMAIN loadedBrain THEN loadedBrain[field] ELSE <<>>

\* Variant: simpleNgrams is not read from the item, as in the version of init without n-grams.
loadBrainWithoutNgrams(b, loadedBrain) ==
    [b EXCEPT
       !.vocab = loadedBrain.vocab,
       !.simpleResponses = loadedBrain.simpleResponses,
       !.memory = loadedBrain.memory,
       !.simpleVocab = setFromArray(arrayOrEmpty(loadedBrain, "simpleVocab"))]

\* Variant: simpleResponses is not read from the item.
loadBrainWithoutResponses(b, loadedBrain) ==
    [b EXCEPT
       !.vocab = loadedBrain.vocab,
       !.memory = loadedBrain.memory,
       !.simpleVocab = setFromArray(arrayOrEmpty(loadedBrain, "simpleVocab")),
       !.simpleNgrams = setFromArray(arrayOrEmpty(loadedBrain, "simpleNgrams"))]

\* The part of init() that reads a parsed item into the brain.
loadBrain(b, loadedBrain) ==
    [b EXCEPT
       !.vocab = loadedBrain.vocab,
       !.simpleResponses = loadedBrain.simpleResponses,
       !.memory = loadedBrain.memory,
       !.simpleVocab = setFromArray(arrayOrEmpty(loadedBrain, "simpleVocab")),
       !.simpleNgrams = setFromArray(arrayOrEmpty(loadedBrain, "simpleNgrams"))]

\* What the n-gram-less version stored after its own seed bootstrap.
V1SeedItem == saveBrainV1(prepareInitialBrain(constructedBrain))

(***************************************************************************)
(* State after the page is constructed, and the gatekeeper's operations.   *)
(***************************************************************************)
Call(op, text, category, response, result) ==
    [op |-> op, text |-> text, category |-> category, response |-> response, result |-> result]

NoCall == Call("none", <<>>, "", "", "")

\* History: a learning event of category "simple", its normalized text and its response.
SimpleEvent(input, response) == [input |-> input, response |-> response]

seedEvents ==
    {SimpleEvent(normalizeText(initialMemory[i].input), initialMemory[i].response) :
        i \in {j \in DOMAIN initialMemory : initialMemory[j].category = "simple"}}

\* A chat message: its fixed wording and the text interpolated into it.
Message(wording, text) == [wording |-> wording, text |-> text]

NoMessage == Message("", <<>>)

\* main.js as the DOMContentLoaded handler leaves it, before gatekeeper.init() is called.
NoInstruction == [command |-> "", query |-> <<>>, response |-> ""]

routerInit ==
    /\ lastQuery = [text |-> <<>>, decision |-> ""]
    /\ isBotThinking = FALSE
    /\ sendBtnDisabled = FALSE
    /\ pending = <<>>
    /\ panel = "hidden"
    /\ teachQuery = <<>>
    /\ chat = [user |-> <<>>, bot |-> NoMessage, system |-> Message("Initializing", <<>>)]
    /\ instruction = NoInstruction
    /\ serverCalls = 0
    /\ sends = 0

Init ==
    /\ brain = constructedBrain
    /\ isInitialized = FALSE
    /\ storage \in {NoItem, MalformedItem, V1SeedItem}
    /\ session = "loading"
    /\ last = NoCall
    /\ learned = IF storage = V1SeedItem THEN seedEvents ELSE {}
    /\ origin = "none"
    /\ learnCount = 0
    /\ routerInit

\* init(), first two statements: both sets are replaced by empty sets.
resetSets(b) == [b EXCEPT !.simpleVocab = <<>>, !.simpleNgrams = <<>>]

\* init() when the item exists and parses.
InitLoad ==
    /\ session = "loading"
    /\ storage.kind = "json"
    /\ brain' = loadBrain(resetSets(brain), storage)
    /\ isInitialized' = TRUE
    /\ storage' = saveBrain(brain')
    /\ session' = "ready"
    /\ last' = Call("init", <<>>, "", "", "loaded")
    /\ origin' = IF origin = "none" THEN "loaded" ELSE origin
    /\ UNCHANGED <<learned, learnCount>>

\* Variant: an item that does not parse is treated as absent.
InitParseErrorFallsBackToSeed ==
    /\ session = "loading"
    /\ storage.kind = "malformed"
    /\ brain' = prepareInitialBrain(resetSets(brain))
    /\ isInitialized' = TRUE
    /\ storage' = saveBrain(brain')
    /\ session' = "ready"
    /\ last' = Call("init", <<>>, "", "", "seeded")
    /\ origin' = IF origin = "none" THEN "malformed" ELSE origin
    /\ learned' = learned \cup seedEvents
    /\ UNCHANGED learnCount

\* init() when JSON.parse throws: the promise rejects after the sets were reset.
InitParseError ==
    /\ session = "loading"
    /\ storage.kind = "malformed"
    /\ brain' = resetSets(brain)
    /\ session' = "ready"
    /\ last' = Call("init", <<>>, "", "", "threw")
    /\ origin' = IF origin = "none" THEN "malformed" ELSE origin
    /\ UNCHANGED <<isInitialized, storage, learned, learnCount>>

\* init() when there is no item: the seed brain is built and saved.
InitBootstrap ==
    /\ session = "loading"
    /\ storage.kind = "absent"
    /\ brain' = prepareInitialBrain(resetSets(brain))
    /\ isInitialized' = TRUE
    /\ storage' = saveBrain(brain')
    /\ session' = "ready"
    /\ last' = Call("init", <<>>, "", "", "seeded")
    /\ origin' = IF origin = "none" THEN "seed" ELSE origin
    /\ learned' = learned \cup seedEvents
    /\ UNCHANGED learnCount

\* Variant: classify registers the words of the query in vocab.
ClassifyRegistersWords(text) ==
    /\ session = "ready"
    /\ last' = Call("classify", text, "", "", classify(brain, isInitialized, text))
    /\ brain' = [brain EXCEPT !.vocab = updateVocab(@, normalizeText(text))]
    /\ UNCHANGED <<isInitialized, storage, session, learned, origin, learnCount>>

Classify(text) ==
    /\ session = "ready"
    /\ last' = Call("classify", text, "", "", classify(brain, isInitialized, text))
    /\ UNCHANGED <<brain, isInitialized, storage, session, learned, origin, learnCount>>

GetSimpleResponse(text) ==
    /\ session = "ready"
    /\ last' = Call("getSimpleResponse", text, "", "", getSimpleResponse(brain, text))
    /\ UNCHANGED <<brain, isInitialized, storage, session, learned, origin, learnCount>>

\* Variant: learnFromFeedback returns without calling _saveBrain.
LearnWithoutSave(text, correctCategory, newResponse) ==
    /\ learnCount < MaxLearn
    /\ brain' = learnFromFeedback(brain, text, correctCategory, newResponse)
    /\ last' = Call("learnFromFeedback", text, correctCategory, newResponse, "saved")
    /\ learned' = IF correctCategory = "simple"
                  THEN learned \cup {SimpleEvent(normalizeText(text), newResponse)}
                  ELSE learned
    /\ learnCount' = learnCount + 1
    /\ UNCHANGED <<isInitialized, session, origin, storage>>

\* The state change of one learnFromFeedback call, shared with the controller.
Learn(text, correctCategory, newResponse) ==
    /\ learnCount < MaxLearn
    /\ brain' = learnFromFeedback(brain, text, correctCategory, newResponse)
    /\ storage' = saveBrain(brain')
    /\ last' = Call("learnFromFeedback", text, correctCategory, newResponse, "saved")
    /\ learned' = IF correctCategory = "simple"
                  THEN learned \cup {SimpleEvent(normalizeText(text), newResponse)}
                  ELSE learned
    /\ learnCount' = learnCount + 1
    /\ UNCHANGED <<isInitialized, session, origin>>

LearnFromFeedback(text, correctCategory, newResponse) ==
    /\ session = "ready"
    /\ Learn(text, correctCategory, newResponse)

\* The page is loaded again: every script object is constructed anew, localStorage stays.
Reload ==
    /\ session = "ready"
    /\ brain' = constructedBrain
    /\ isInitialized' = FALSE
    /\ session' = "loading"
    /\ last' = NoCall
    /\ lastQuery' = [text |-> <<>>, decision |-> ""]
    /\ isBotThinking' = FALSE
    /\ sendBtnDisabled' = FALSE
    /\ pending' = <<>>
    /\ panel' = "hidden"
    /\ teachQuery' = <<>>
    /\ chat' = [user |-> <<>>, bot |-> NoMessage, system |-> Message("Initializing", <<>>)]
    /\ UNCHANGED <<storage, learned, origin, learnCount, instruction, serverCalls, sends>>

GatekeeperNext ==
    \/ InitLoad /\ UNCHANGED rvars
    \/ InitParseError /\ UNCHANGED rvars
    \/ InitBootstrap /\ UNCHANGED rvars
    \/ \E text \in Queries : Classify(text) /\ UNCHANGED rvars
    \/ \E text \in Queries : GetSimpleResponse(text) /\ UNCHANGED rvars
    \/ \E text \in Phrases, newResponse \in Responses :
           LearnFromFeedback(text, "simple", newResponse) /\ UNCHANGED rvars
    \/ \E text \in Phrases : LearnFromFeedback(text, "complex", Null) /\ UNCHANGED rvars
    \/ Reload

GatekeeperSpec == Init /\ [][GatekeeperNext]_vars

(***************************************************************************)
(* The gatekeeper when localStorage.setItem may throw (quota exceeded,     *)
(* storage disabled): _saveBrain has no try, so the exception leaves       *)
(* learnFromFeedback or init at its last statement but one.                *)
(***************************************************************************)
\* Variant: the brain is put back as it was before the call throws.
LearnThrowsAfterRollback(text, correctCategory, newResponse) ==
    /\ learnCount < MaxLearn
    /\ last' = Call("learnFromFeedback", text, correctCategory, newResponse, "threw")
    /\ learnCount' = learnCount + 1
    /\ UNCHANGED <<brain, storage, learned, isInitialized, session, origin>>

\* One learnFromFeedback call whose _saveBrain throws: every statement before it has run.
LearnThrows(text, correctCategory, newResponse) ==
    /\ learnCount < MaxLearn
    /\ brain' = learnFromFeedback(brain, text, correctCategory, newResponse)
    /\ last' = Call("learnFromFeedback", text, correctCategory, newResponse, "threw")
    /\ learned' = IF correctCategory = "simple"
                  THEN learned \cup {SimpleEvent(normalizeText(text), newResponse)}
                  ELSE learned
    /\ learnCount' = learnCount + 1
    /\ UNCHANGED <<storage, isInitialized, session, origin>>

LearnFromFeedbackThrows(text, correctCategory, newResponse) ==
    /\ session = "ready"
    /\ LearnThrows(text, correctCategory, newResponse)

\* init() when the item exists and parses, and the closing _saveBrain throws.
InitLoadThrows ==
    /\ session = "loading"
    /\ storage.kind = "json"
    /\ brain' = loadBrain(resetSets(brain), storage)
    /\ isInitialized' = TRUE
    /\ session' = "ready"
    /\ last' = Call("init", <<>>, "", "", "threw")
    /\ origin' = IF origin = "none" THEN "loaded" ELSE origin
    /\ UNCHANGED <<storage, learned, learnCount>>

\* init() when there is no item, and the closing _saveBrain throws.
InitBootstrapThrows ==
    /\ session = "loading"
    /\ storage.kind = "absent"
    /\ brain' = prepareInitialBrain(resetSets(brain))
    /\ isInitialized' = TRUE
    /\ session' = "ready"
    /\ last' = Call("init", <<>>, "", "", "threw")
    /\ origin' = IF origin = "none" THEN "seed" ELSE origin
    /\ learned' = learned \cup seedEvents
    /\ UNCHANGED <<storage, learnCount>>

GatekeeperFaultNext ==
    \/ InitLoad /\ UNCHANGED rvars
    \/ InitLoadThrows /\ UNCHANGED rvars
    \/ InitParseError /\ UNCHANGED rvars
    \/ InitBootstrap /\ UNCHANGED rvars
    \/ InitBootstrapThrows /\ UNCHANGED rvars
    \/ \E text \in Queries : Classify(text) /\ UNCHANGED rvars
    \/ \E text \in Queries : GetSimpleResponse(text) /\ UNCHANGED rvars
    \/ \E text \in Phrases, newResponse \in Responses :
           LearnFromFeedback(text, "simple", newResponse) /\ UNCHANGED rvars
    \/ \E text \in Phrases : LearnFromFeedback(text, "complex", Null) /\ UNCHANGED rvars
    \/ \E text \in Phrases, newResponse \in Responses :
           LearnFromFeedbackThrows(text, "simple", newResponse) /\ UNCHANGED rvars
    \/ \E text \in Phrases : LearnFromFeedbackThrows(text, "complex", Null) /\ UNCHANGED rvars
    \/ Reload

GatekeeperFaultSpec == Init /\ [][GatekeeperFaultNext]_vars

(***************************************************************************)
(* api.js: the LLM stub.                                                   *)
(***************************************************************************)
Thx == <<"thx">>

YoureWelcome == "You're welcome!"

serverLLMgetResponse(query) ==
    LET normalizedQuery == trim(removePunctuation(toLowerCase(query)))
    IN  IF normalizedQuery = Thx
        THEN [userResponse        |-> Message(YoureWelcome, <<>>),
              learningInstruction |-> [command  |-> "LEARN_SIMPLE_PHRASE",
                                       query    |-> normalizedQuery,
                                       response |-> YoureWelcome]]
        ELSE [userResponse        |-> Message("This is a detailed response", query),
              learningInstruction |-> NoInstruction]

(***************************************************************************)
(* main.js: the chat controller.                                           *)
(***************************************************************************)
\* What the user types into user-input and into response-input.
UserInputs ==
    { <<"thx">>,
      <<Space, "THX", "!">>,
      <<"world">>,
      <<"HELLO", "!">>,
      <<"!">>,
      <<Space>> }

TeachInputs == {<<>>, <<"Hi!">>, <<Space>>}

\* A response typed by the user is one atom; an all-blank input trims to the empty string.
responseOf(input) == IF trim(input) = <<>> THEN "" ELSE trim(input)[1]

\* Variant: every query is forwarded.
routeAlwaysForward(b, initialized, userText) ==
    [decision |-> classify(b, initialized, userText),
     forward  |-> TRUE,
     reply    |-> Message("Thinking...", <<>>)]

\* handleSendMessage up to its branch: the decision, whether the query goes to the server, the bot's message.
route(b, initialized, userText) ==
    LET decision == classify(b, initialized, userText)
    IN  [decision |-> decision,
         forward  |-> decision # "simple",
         reply    |-> IF decision = "simple"
                      THEN Message(getSimpleResponse(b, userText), <<>>)
                      ELSE Message("Thinking...", <<>>)]

\* handleSendMessage for a query classified "simple": it runs to its end without awaiting.
SendSimple(input) ==
    LET userText == trim(input)
        r == route(brain, isInitialized, userText)
    IN  /\ session = "ready"
        /\ userText # <<>>
        /\ ~isBotThinking
        /\ sends < MaxSends
        /\ ~r.forward
        /\ lastQuery' = [text |-> userText, decision |-> r.decision]
        /\ chat' = [chat EXCEPT !.user = userText, !.bot = r.reply]
        /\ panel' = "feedback"
        /\ isBotThinking' = FALSE
        /\ sendBtnDisabled' = FALSE
        /\ last' = Call("getSimpleResponse", userText, "", "", getSimpleResponse(brain, userText))
        /\ sends' = sends + 1
        /\ instruction' = IF normalizeText(userText) = normalizeText(instruction.query)
                          THEN NoInstruction ELSE instruction
        /\ UNCHANGED <<brain, isInitialized, storage, session, learned, origin, learnCount,
                       pending, teachQuery, serverCalls>>

\* Variant: the guard of handleSendMessage does not test isBotThinking.
SendComplexWhileThinking(input) ==
    LET userText == trim(input)
        r == route(brain, isInitialized, userText)
    IN  /\ session = "ready"
        /\ userText # <<>>
        /\ sends < MaxSends
        /\ r.forward
        /\ isBotThinking' = TRUE
        /\ sendBtnDisabled' = TRUE
        /\ panel' = "hidden"
        /\ lastQuery' = [text |-> userText, decision |-> r.decision]
        /\ chat' = [chat EXCEPT !.user = userText, !.bot = r.reply]
        /\ last' = Call("classify", userText, "", "", r.decision)
        /\ pending' = userText
        /\ serverCalls' = serverCalls + 1
        /\ sends' = sends + 1
        /\ instruction' = IF normalizeText(userText) = normalizeText(instruction.query)
                          THEN NoInstruction ELSE instruction
        /\ UNCHANGED <<brain, isInitialized, storage, session, learned, origin, learnCount,
                       teachQuery>>

\* handleSendMessage for any other query, up to `await serverLLM.getResponse(userText)`.
SendComplex(input) ==
    LET userText == trim(input)
        r == route(brain, isInitialized, userText)
    IN  /\ session = "ready"
        /\ userText # <<>>
        /\ ~isBotThinking
        /\ sends < MaxSends
        /\ r.forward
        /\ isBotThinking' = TRUE
        /\ sendBtnDisabled' = TRUE
        /\ panel' = "hidden"
        /\ lastQuery' = [text |-> userText, decision |-> r.decision]
        /\ chat' = [chat EXCEPT !.user = userText, !.bot = r.reply]
        /\ last' = Call("classify", userText, "", "", r.decision)
        /\ pending' = userText
        /\ serverCalls' = serverCalls + 1
        /\ sends' = sends + 1
        /\ instruction' = IF normalizeText(userText) = normalizeText(instruction.query)
                          THEN NoInstruction ELSE instruction
        /\ UNCHANGED <<brain, isInitialized, storage, session, learned, origin, learnCount,
                       teachQuery>>

\* handleSendMessage resumes with a result that carries a LEARN_SIMPLE_PHRASE instruction.
ServerTeaches ==
    LET serverData == serverLLMgetResponse(pending)
        instr == serverData.learningInstruction
    IN  /\ pending # <<>>
        /\ instr # NoInstruction
        /\ instr.command = "LEARN_SIMPLE_PHRASE"
        /\ Learn(instr.query, "simple", instr.response)
        /\ chat' = [chat EXCEPT !.bot = serverData.userResponse,
                                !.system = Message("Received instruction from server", instr.query)]
        /\ instruction' = instr
        /\ isBotThinking' = FALSE
        /\ sendBtnDisabled' = FALSE
        /\ pending' = <<>>
        /\ UNCHANGED <<lastQuery, panel, teachQuery, serverCalls, sends>>

\* handleSendMessage resumes with a result without such an instruction.
ServerAnswers ==
    LET serverData == serverLLMgetResponse(pending)
        instr == serverData.learningInstruction
    IN  /\ pending # <<>>
        /\ ~(instr # NoInstruction /\ instr.command = "LEARN_SIMPLE_PHRASE")
        /\ chat' = [chat EXCEPT !.bot = serverData.userResponse]
        /\ panel' = "feedback"
        /\ isBotThinking' = FALSE
        /\ sendBtnDisabled' = FALSE
        /\ pending' = <<>>
        /\ UNCHANGED <<brain, isInitialized, storage, session, last, learned, origin, learnCount,
                       lastQuery, teachQuery, instruction, serverCalls, sends>>

\* Click on correct-btn.
ConfirmFeedback ==
    /\ session = "ready"
    /\ panel = "feedback"
    /\ panel' = "hidden"
    /\ UNCHANGED <<brain, isInitialized, storage, session, last, learned, origin, learnCount,
                   lastQuery, isBotThinking, sendBtnDisabled, pending, teachQuery, chat,
                   instruction, serverCalls, sends>>

\* handleIncorrectFeedback when the rejected decision was "complex": the teach panel opens.
RejectComplex ==
    /\ session = "ready"
    /\ panel = "feedback"
    /\ lastQuery.decision # "simple"
    /\ teachQuery' = lastQuery.text
    /\ panel' = "teach"
    /\ UNCHANGED <<brain, isInitialized, storage, session, last, learned, origin, learnCount,
                   lastQuery, isBotThinking, sendBtnDisabled, pending, chat,
                   instruction, serverCalls, sends>>

\* Variant: the rejected category itself is passed to learnFromFeedback.
RejectSimpleLearnsRejectedCategory ==
    /\ session = "ready"
    /\ panel = "feedback"
    /\ lastQuery.decision = "simple"
    /\ panel' = "hidden"
    /\ chat' = [chat EXCEPT !.system = Message("Understood!", <<>>)]
    /\ Learn(lastQuery.text, lastQuery.decision, Null)
    /\ UNCHANGED <<lastQuery, isBotThinking, sendBtnDisabled, pending, teachQuery,
                   instruction, serverCalls, sends>>

\* handleIncorrectFeedback when the rejected decision was "simple".
RejectSimple ==
    /\ session = "ready"
    /\ panel = "feedback"
    /\ lastQuery.decision = "simple"
    /\ panel' = "hidden"
    /\ chat' = [chat EXCEPT !.system = Message("Understood!", <<>>)]
    /\ Learn(lastQuery.text, "complex", Null)
    /\ UNCHANGED <<lastQuery, isBotThinking, sendBtnDisabled, pending, teachQuery,
                   instruction, serverCalls, sends>>

\* handleTeachNewResponse.
TeachNewResponse(input) ==
    LET query == teachQuery
        newResponse == responseOf(input)
    IN  /\ session = "ready"
        /\ panel = "teach"
        /\ Truthy(newResponse)
        /\ panel' = "hidden"
        /\ chat' = [chat EXCEPT !.system = Message("Got it! Learning a new response", query)]
        /\ Learn(query, "simple", newResponse)
        /\ UNCHANGED <<lastQuery, isBotThinking, sendBtnDisabled, pending, teachQuery,
                       instruction, serverCalls, sends>>

RouterNext ==
    \/ InitLoad /\ UNCHANGED rvars
    \/ InitParseError /\ UNCHANGED rvars
    \/ InitBootstrap /\ UNCHANGED rvars
    \/ \E input \in UserInputs : SendSimple(input)
    \/ \E input \in UserInputs : SendComplex(input)
    \/ ServerTeaches
    \/ ServerAnswers
    \/ ConfirmFeedback
    \/ RejectComplex
    \/ RejectSimple
    \/ \E input \in TeachInputs : TeachNewResponse(input)
    \/ Reload

RouterSpec == Init /\ [][RouterNext]_vars

(***************************************************************************)
(* main.js when localStorage.setItem may throw.  No handler has a try: an  *)
(* exception out of learnFromFeedback ends the handler where it awaits or  *)
(* calls it.                                                               *)
(***************************************************************************)
\* handleSendMessage resumes with a learning instruction and learnFromFeedback throws:
\* the two statements after the if are not reached.
ServerTeachesThrows ==
    LET serverData == serverLLMgetResponse(pending)
        instr == serverData.learningInstruction
    IN  /\ pending # <<>>
        /\ instr # NoInstruction
        /\ instr.command = "LEARN_SIMPLE_PHRASE"
        /\ LearnThrows(instr.query, "simple", instr.response)
        /\ chat' = [chat EXCEPT !.bot = serverData.userResponse,
                                !.system = Message("Received instruction from server", instr.query)]
        /\ instruction' = instr
        /\ pending' = <<>>
        /\ UNCHANGED <<isBotThinking, sendBtnDisabled, lastQuery, panel, teachQuery,
                       serverCalls, sends>>

\* handleIncorrectFeedback when the rejected decision was "simple" and learnFromFeedback throws:
\* the promise is neither awaited nor caught.
RejectSimpleThrows ==
    /\ session = "ready"
    /\ panel = "feedback"
    /\ lastQuery.decision = "simple"
    /\ panel' = "hidden"
    /\ chat' = [chat EXCEPT !.system = Message("Understood!", <<>>)]
    /\ LearnThrows(lastQuery.text, "complex", Null)
    /\ UNCHANGED <<lastQuery, isBotThinking, sendBtnDisabled, pending, teachQuery,
                   instruction, serverCalls, sends>>

\* handleTeachNewResponse when learnFromFeedback throws.
TeachNewResponseThrows(input) ==
    LET query == teachQuery
        newResponse == responseOf(input)
    IN  /\ session = "ready"
        /\ panel = "teach"
        /\ Truthy(newResponse)
        /\ panel' = "hidden"
        /\ chat' = [chat EXCEPT !.system = Message("Got it! Learning a new response", query)]
        /\ LearnThrows(query, "simple", newResponse)
        /\ UNCHANGED <<lastQuery, isBotThinking, sendBtnDisabled, pending, teachQuery,
                       instruction, serverCalls, sends>>

RouterFaultNext ==
    \/ InitLoad /\ UNCHANGED rvars
    \/ InitLoadThrows /\ UNCHANGED rvars
    \/ InitParseError /\ UNCHANGED rvars
    \/ InitBootstrap /\ UNCHANGED rvars
    \/ InitBootstrapThrows /\ UNCHANGED rvars
    \/ \E input \in UserInputs : SendSimple(input)
    \/ \E input \in UserInputs : SendComplex(input)
    \/ ServerTeaches
    \/ ServerTeachesThrows
    \/ ServerAnswers
    \/ ConfirmFeedback
    \/ RejectComplex
    \/ RejectSimple
    \/ RejectSimpleThrows
    \/ \E input \in TeachInputs : TeachNewResponse(input)
    \/ \E input \in TeachInputs : TeachNewResponseThrows(input)
    \/ Reload

RouterFaultSpec == Init /\ [][RouterFaultNext]_vars

(***************************************************************************)
(* main.js and learnFromFeedback statement by statement.  A handler starts *)
(* only when no script runs (session = "ready"); a script gives way to     *)
(* other handlers only where it awaits something pending.  While a         *)
(* learnFromFeedback call runs, `last` is the call and last.result the     *)
(* line of its next statement.                                             *)
(***************************************************************************)
LearnPositions == {"at 232", "at 246", "at 247", "at 250"}

\* learnFromFeedback, lines 232 to 245.
learnSimplePart(b, text, correctCategory, newResponse) ==
    LET normalizedText == normalizeText(text)
        words == splitWords(normalizedText)
        simple == correctCategory = "simple"
    IN  [b EXCEPT
           !.simpleResponses =
               IF simple /\ Truthy(newResponse) THEN objSet(@, normalizedText, newResponse) ELSE @,
           !.simpleVocab = IF simple THEN setAddAll(@, words) ELSE @,
           !.simpleNgrams = IF simple /\ Len(words) > 1 THEN setAddAll(@, bigramsOf(words)) ELSE @]

\* learnFromFeedback, line 246.
learnVocabPart(b, text) == [b EXCEPT !.vocab = updateVocab(@, normalizeText(text))]

\* learnFromFeedback, lines 247 to 249.
learnMemoryPart(b, text, correctCategory) ==
    LET normalizedText == normalizeText(text)
    IN  [b EXCEPT
           !.memory =
               IF ~memoryHas(@, normalizedText)
               THEN Append(@, [input |-> normalizedText, category |-> correctCategory])
               ELSE @]

\* A handler calls learnFromFeedback: lines 229 to 231 touch nothing.
LearnBegins(text, correctCategory, newResponse) ==
    /\ learnCount < MaxLearn
    /\ session' = "learning"
    /\ last' = Call("learnFromFeedback", text, correctCategory, newResponse, "at 232")
    /\ UNCHANGED <<brain, isInitialized, storage, learned, origin, learnCount>>

LearnAt(position) == last.op = "learnFromFeedback" /\ last.result = position

LearnSimplePart ==
    /\ LearnAt("at 232")
    /\ brain' = learnSimplePart(brain, last.text, last.category, last.response)
    /\ last' = [last EXCEPT !.result = "at 246"]
    /\ UNCHANGED <<isInitialized, storage, session, learned, origin, learnCount>>

LearnVocabPart ==
    /\ LearnAt("at 246")
    /\ brain' = learnVocabPart(brain, last.text)
    /\ last' = [last EXCEPT !.result = "at 247"]
    /\ UNCHANGED <<isInitialized, storage, session, learned, origin, learnCount>>

\* Variant: learnFromFeedback awaits the write, so other handlers run before _saveBrain.
LearnMemoryPartThenAwaits ==
    /\ LearnAt("at 247")
    /\ brain' = learnMemoryPart(brain, last.text, last.category)
    /\ last' = [last EXCEPT !.result = "at 250"]
    /\ session' = "ready"
    /\ UNCHANGED <<isInitialized, storage, learned, origin, learnCount>>

LearnMemoryPart ==
    /\ LearnAt("at 247")
    /\ brain' = learnMemoryPart(brain, last.text, last.category)
    /\ last' = [last EXCEPT !.result = "at 250"]
    /\ UNCHANGED <<isInitialized, storage, session, learned, origin, learnCount>>

\* Line 250, the return, and what the caller does next: handleSendMessage, the only caller
\* with statements after its await, runs lines 68 and 69 before any other handler.
LearnSaves ==
    /\ LearnAt("at 250")
    /\ storage' = saveBrain(brain)
    /\ last' = [last EXCEPT !.result = "saved"]
    /\ session' = "ready"
    /\ learned' = IF last.category = "simple"
                  THEN learned \cup {SimpleEvent(normalizeText(last.text), last.response)}
                  ELSE learned
    /\ learnCount' = learnCount + 1
    /\ IF pending # <<>>
       THEN isBotThinking' = FALSE /\ sendBtnDisabled' = FALSE /\ pending' = <<>>
       ELSE UNCHANGED <<isBotThinking, sendBtnDisabled, pending>>
    /\ UNCHANGED <<brain, isInitialized, origin, lastQuery, panel, teachQuery, chat,
                   instruction, serverCalls, sends>>

\* handleSendMessage resumes with a learning instruction, up to the call in line 63.
ServerTeachesBegins ==
    LET serverData == serverLLMgetResponse(pending)
        instr == serverData.learningInstruction
    IN  /\ session = "ready"
        /\ pending # <<>>
        /\ instr # NoInstruction
        /\ instr.command = "LEARN_SIMPLE_PHRASE"
        /\ LearnBegins(instr.query, "simple", instr.response)
        /\ chat' = [chat EXCEPT !.bot = serverData.userResponse,
                                !.system = Message("Received instruction from server", instr.query)]
        /\ instruction' = instr
        /\ UNCHANGED <<lastQuery, isBotThinking, sendBtnDisabled, pending, panel, teachQuery,
                       serverCalls, sends>>

\* handleIncorrectFeedback when the rejected decision was "simple", up to the call in line 81.
RejectSimpleBegins ==
    /\ session = "ready"
    /\ panel = "feedback"
    /\ lastQuery.decision = "simple"
    /\ panel' = "hidden"
    /\ chat' = [chat EXCEPT !.system = Message("Understood!", <<>>)]
    /\ LearnBegins(lastQuery.text, "complex", Null)
    /\ UNCHANGED <<lastQuery, isBotThinking, sendBtnDisabled, pending, teachQuery,
                   instruction, serverCalls, sends>>

\* handleTeachNewResponse, up to the call in line 91.
TeachNewResponseBegins(input) ==
    LET query == teachQuery
        newResponse == responseOf(input)
    IN  /\ session = "ready"
        /\ panel = "teach"
        /\ Truthy(newResponse)
        /\ panel' = "hidden"
        /\ chat' = [chat EXCEPT !.system = Message("Got it! Learning a new response", query)]
        /\ LearnBegins(query, "simple", newResponse)
        /\ UNCHANGED <<lastQuery, isBotThinking, sendBtnDisabled, pending, teachQuery,
                       instruction, serverCalls, sends>>

StatementNext ==
    \/ InitLoad /\ UNCHANGED rvars
    \/ InitParseError /\ UNCHANGED rvars
    \/ InitBootstrap /\ UNCHANGED rvars
    \/ \E input \in UserInputs : SendSimple(input)
    \/ \E input \in UserInputs : SendComplex(input)
    \/ ServerTeachesBegins
    \/ session = "ready" /\ ServerAnswers
    \/ ConfirmFeedback
    \/ RejectComplex
    \/ RejectSimpleBegins
    \/ \E input \in TeachInputs : TeachNewResponseBegins(input)
    \/ LearnSimplePart /\ UNCHANGED rvars
    \/ LearnVocabPart /\ UNCHANGED rvars
    \/ LearnMemoryPart /\ UNCHANGED rvars
    \/ LearnSaves
    \/ Reload

StatementSpec == Init /\ [][StatementNext]_vars

(***************************************************************************)
(* Vocabulary of the properties.                                           *)
(***************************************************************************)
\* The words and the adjacent pairs of every text, computed once.
WordsTable == [text \in Texts |-> splitWords(normalizeText(text))]

PairsTable == [text \in Texts |-> Range(bigramsOf(WordsTable[text]))]

wordsOf(text) == WordsTable[text]

pairsOf(text) == PairsTable[text]

\* Words and adjacent pairs of the phrases learned as "simple" so far in the run.
SeenWords == UNION {Range(splitWords(e.input)) : e \in learned}

SeenPairs == UNION {Range(bigramsOf(splitWords(e.input))) : e \in learned}

\* Normalized phrases taught with a response so far in the run.
TaughtKeys == {e.input : e \in {x \in learned : Truthy(x.response)}}

LearnedSimple == last.op = "learnFromFeedback" /\ last.category = "simple"

LearnedComplex == last.op = "learnFromFeedback" /\ last.category = "complex"

Classified(text, result) == last.op = "classify" /\ last.text = text /\ last.result = result

(***************************************************************************)
(* C1.  On an initialized gatekeeper, right after learnFromFeedback(p,     *)
(* "simple", r) with a non-empty r, classify(p) is "simple" and            *)
(* getSimpleResponse(p) is r.                                              *)
(***************************************************************************)
C1_TaughtPhraseIsServed ==
    (isInitialized /\ LearnedSimple /\ Truthy(last.response))
        => /\ classify(brain, isInitialized, last.text) = "simple"
           /\ getSimpleResponse(brain, last.text) = last.response

(***************************************************************************)
(* C2.  On an initialized gatekeeper classify(t) is the rule hierarchy:    *)
(* "simple" if normalize(t) is a key of simpleResponses; else "simple" if  *)
(* t has no words; else "complex" if some word is not in simpleVocab; else *)
(* "complex" if t has two or more words and some adjacent pair is not in   *)
(* simpleNgrams; else "simple".                                            *)
(***************************************************************************)
RuleHierarchy(text) ==
    LET words == wordsOf(text)
    IN  IF normalizeText(text) \in objKeys(brain.simpleResponses) THEN "simple"
        ELSE IF Len(words) = 0 THEN "simple"
        ELSE IF Range(words) \ Range(brain.simpleVocab) # {} THEN "complex"
        ELSE IF Len(words) >= 2 /\ pairsOf(text) \ Range(brain.simpleNgrams) # {} THEN "complex"
        ELSE "simple"

C3_UnknownWordVeto ==
    origin = "seed" =>
        LET seenWords == SeenWords
        IN  \A text \in Texts :
                Range(wordsOf(text)) \ seenWords # {} => classify(brain, isInitialized, text) = "complex"

\* classify has vetoed "world hello" after "hello world" was learned as complex only.
C3_Witness ==
    /\ origin = "seed"
    /\ isInitialized
    /\ Classified(<<"world", Space, "hello">>, "complex")
    /\ memoryHas(brain.memory, <<"hello", Space, "world">>)
    /\ <<"world">> \notin SeenWords

C5_ComplexBeforeInit ==
    ~isInitialized => \A text \in Texts : classify(brain, isInitialized, text) = "complex"

\* On an uninitialized gatekeeper classify has answered "complex" for the empty query while simpleResponses has keys.
C5_Witness ==
    /\ ~isInitialized
    /\ Classified(<<Space, "!">>, "complex")
    /\ hasOwnProperty(brain.simpleResponses, <<"hello", Space, "world">>)
    /\ classify(brain, isInitialized, <<"hello", Space, "world">>) = "complex"

(***************************************************************************)
(* C6.  As claimed: in every initialized state an empty or punctuation-    *)
(* only query is "simple" and getSimpleResponse gives the fallback text.   *)
(***************************************************************************)
EmptyQueries == {text \in Texts : normalizeText(text) = <<>>}

C6_EmptyQueryGetsFallback ==
    isInitialized =>
        \A text \in EmptyQueries :
            /\ classify(brain, isInitialized, text) = "simple"
            /\ getSimpleResponse(brain, text) = Fallback

(***************************************************************************)
(* C6, amended.  In every initialized state an empty or punctuation-only   *)
(* query is "simple"; getSimpleResponse gives the fallback text as long as *)
(* no empty or punctuation-only phrase was taught with a non-empty         *)
(* response, and a response so taught afterwards.                          *)
(***************************************************************************)
EmptyPhraseResponses == {e.response : e \in {x \in learned : x.input = <<>> /\ Truthy(x.response)}}

C6_EmptyQueryGetsFallbackUnlessTaught ==
    isInitialized =>
        \A text \in EmptyQueries :
            /\ classify(brain, isInitialized, text) = "simple"
            /\ IF EmptyPhraseResponses = {}
               THEN getSimpleResponse(brain, text) = Fallback
               ELSE getSimpleResponse(brain, text) \in EmptyPhraseResponses

\* getSimpleResponse has given the fallback for a punctuation-only query on an initialized gatekeeper.
C6_Witness ==
    /\ isInitialized
    /\ last.op = "getSimpleResponse"
    /\ last.text = <<Space, "!">>
    /\ last.result = Fallback
    /\ learnCount > 0

(***************************************************************************)
(* C7.  learnFromFeedback(p, "complex") leaves simpleVocab, simpleNgrams   *)
(* and simpleResponses as they were, hence the result of classify and of   *)
(* getSimpleResponse for every query, and memory then holds a record for   *)
(* normalize(p).                                                           *)
(***************************************************************************)
C7_ComplexLearningFrame ==
    [][\A p \in Phrases :
          LearnFromFeedback(p, "complex", Null) =>
              /\ brain'.simpleVocab = brain.simpleVocab
              /\ brain'.simpleNgrams = brain.simpleNgrams
              /\ brain'.simpleResponses = brain.simpleResponses
              /\ \A text \in Texts :
                     /\ classify(brain', isInitialized', text) = classify(brain, isInitialized, text)
                     /\ getSimpleResponse(brain', text) = getSimpleResponse(brain, text)
              /\ memoryHas(brain'.memory, normalizeText(p))]_vars

\* "hello world" was learned as complex and is still classified complex.
C7_Witness ==
    /\ isInitialized
    /\ LearnedComplex
    /\ last.text = <<"HELLO", Space, "world", "!">>
    /\ classify(brain, isInitialized, last.text) = "complex"
    /\ memoryHas(brain.memory, <<"hello", Space, "world">>)

(***************************************************************************)
(* C8.  memory holds at most one record per normalized input, and a        *)
(* learnFromFeedback call for an input that already has a record neither   *)
(* appends a record nor changes the stored category.                       *)
(***************************************************************************)
NoDuplicateInputs(memory) ==
    \A i, j \in DOMAIN memory : memory[i].input = memory[j].input => i = j

C8_MemoryFirstWriteWins ==
    /\ [](NoDuplicateInputs(brain.memory))
    /\ [][\A p \in Phrases, category \in {"simple", "complex"}, r \in Responses :
             LearnFromFeedback(p, category, r) =>
                 /\ SubSeq(brain'.memory, 1, Len(brain.memory)) = brain.memory
                 /\ memoryHas(brain.memory, normalizeText(p)) => brain'.memory = brain.memory]_vars

\* "hello world", first learned as simple, was learned again as complex: its record is as before.
C8_Witness ==
    /\ LearnedComplex
    /\ last.text = <<"HELLO", Space, "world", "!">>
    /\ \E i \in DOMAIN brain.memory :
           brain.memory[i] = [input |-> <<"hello", Space, "world">>, category |-> "simple"]

(***************************************************************************)
(* C9.  When the server's result for a forwarded query carries a           *)
(* LEARN_SIMPLE_PHRASE instruction, the controller calls                   *)
(* learnFromFeedback(instruction.query, "simple", instruction.response)    *)
(* once, and the next submission of that query is classified "simple" and  *)
(* answered with instruction.response without a call of the server.        *)
(***************************************************************************)
InstructionArrives ==
    /\ pending # <<>>
    /\ pending' = <<>>
    /\ session' = session
    /\ serverLLMgetResponse(pending).learningInstruction.command = "LEARN_SIMPLE_PHRASE"

InstructedQuerySent ==
    /\ sends' = sends + 1
    /\ instruction # NoInstruction
    /\ normalizeText(lastQuery'.text) = normalizeText(instruction.query)

C10_Routing ==
    [][ /\ serverCalls' # serverCalls => sends' = sends + 1
        /\ sends' = sends + 1 =>
               LET userText == chat'.user
                   decision == classify(brain, isInitialized, userText)
               IN  /\ lastQuery' = [text |-> userText, decision |-> decision]
                   /\ decision = "complex" =>
                          /\ serverCalls' = serverCalls + 1
                          /\ pending' = userText
                   /\ decision = "simple" =>
                          /\ serverCalls' = serverCalls
                          /\ pending' = <<>>
                          /\ chat'.bot = Message(getSimpleResponse(brain, userText), <<>>) ]_vars

\* One message went to the server and a later one was answered locally.
C10_Witness ==
    /\ serverCalls = 1
    /\ sends = 2
    /\ lastQuery.decision = "simple"
    /\ chat.bot = Message(getSimpleResponse(brain, lastQuery.text), <<>>)
    /\ pending = <<>>

(***************************************************************************)
(* C11.  Whenever init or learnFromFeedback has completed, the item in     *)
(* localStorage is the JSON of the current brain with simpleVocab and      *)
(* simpleNgrams as arrays; so it is in every state of a session whose      *)
(* init has completed.                                                     *)
(***************************************************************************)
\* item is the JSON text of b, the two Sets written as arrays of their elements in insertion order.
Serialized(b, item) ==
    /\ item.kind = "json"
    /\ DOMAIN item = {"kind", "vocab", "simpleVocab", "simpleNgrams", "categories",
                      "simpleResponses", "memory"}
    /\ item.vocab = b.vocab
    /\ item.categories = b.categories
    /\ item.simpleResponses = b.simpleResponses
    /\ item.memory = b.memory
    /\ Len(item.simpleVocab) = Len(b.simpleVocab)
    /\ \A i \in DOMAIN item.simpleVocab : item.simpleVocab[i] = b.simpleVocab[i]
    /\ Len(item.simpleNgrams) = Len(b.simpleNgrams)
    /\ \A i \in DOMAIN item.simpleNgrams : item.simpleNgrams[i] = b.simpleNgrams[i]

InitOrLearnCompleted ==
    /\ last.op \in {"init", "learnFromFeedback"}
    /\ last.result \in {"loaded", "seeded", "saved"}

C11_StorageIsCurrent ==
    /\ InitOrLearnCompleted => Serialized(brain, storage)
    /\ isInitialized => Serialized(brain, storage)

\* After a bootstrap "hello world" was learned as simple, and the item holds the new bigram.
C11_Witness ==
    /\ isInitialized
    /\ origin = "seed"
    /\ LearnedSimple
    /\ last.result = "saved"
    /\ setHas(brain.simpleNgrams, <<"hello", Space, "world">>)
    /\ setHas(storage.simpleNgrams, <<"hello", Space, "world">>)

(***************************************************************************)
(* C12.  As claimed: after any sequence of learning events, the brain that *)
(* the init of a new session loads from the item has the same simpleVocab  *)
(* and simpleNgrams members, simpleResponses, vocab and memory; classify   *)
(* and getSimpleResponse answer every query as before the restart; and     *)
(* saving the loaded brain writes the same item again.                     *)
(***************************************************************************)
\* The brain of the next session: init() on a newly constructed gatekeeper with the present item.
Restarted == loadBrain(resetSets(constructedBrain), storage)

SameFields(b, nb) ==
    /\ Range(nb.simpleVocab) = Range(b.simpleVocab)
    /\ Range(nb.simpleNgrams) = Range(b.simpleNgrams)
    /\ nb.simpleResponses = b.simpleResponses
    /\ nb.vocab = b.vocab
    /\ nb.memory = b.memory

LearnThrew == last.op = "learnFromFeedback" /\ last.result = "threw"

C14_FailedLearningLeavesNoMutation ==
    (LearnThrew /\ storage.kind = "json") => SameFields(brain, Restarted)

(***************************************************************************)
(* C15.  A learnFromFeedback call whose persistence write fails ends with  *)
(* the exception, and nothing is rolled back: the item is as before, and   *)
(* the brain has the response, the words, the adjacent pairs, the vocab    *)
(* entries and the memory record of the call, next to all it had before.   *)
(***************************************************************************)
MutationsOf(b, text, correctCategory, newResponse) ==
    LET normalizedText == normalizeText(text)
        words == splitWords(normalizedText)
    IN  /\ correctCategory = "simple" =>
               /\ (Truthy(newResponse) /\ normalizedText # ProtoKey) =>
                      /\ hasOwnProperty(b.simpleResponses, normalizedText)
                      /\ objGet(b.simpleResponses, normalizedText) = newResponse
               /\ Range(words) \subseteq Range(b.simpleVocab)
               /\ Range(bigramsOf(words)) \subseteq Range(b.simpleNgrams)
        /\ \A w \in Range(words) \ {ProtoKey} : hasOwnProperty(b.vocab, w)
        /\ memoryHas(b.memory, normalizedText)

Kept(b, nb) ==
    /\ Range(b.simpleVocab) \subseteq Range(nb.simpleVocab)
    /\ Range(b.simpleNgrams) \subseteq Range(nb.simpleNgrams)
    /\ objKeys(b.simpleResponses) \subseteq objKeys(nb.simpleResponses)
    /\ objKeys(b.vocab) \subseteq objKeys(nb.vocab)
    /\ SubSeq(nb.memory, 1, Len(b.memory)) = b.memory

C15_FailedWriteThrowsWithoutRollback ==
    [][\A p \in Phrases, category \in {"simple", "complex"}, r \in Responses :
          LearnFromFeedbackThrows(p, category, r) =>
              /\ last'.result = "threw"
              /\ storage' = storage
              /\ MutationsOf(brain', p, category, r)
              /\ Kept(brain, brain')]_vars

\* The write failed while "hello world" was learned as simple: the brain has the bigram, the item has not.
C15_Witness ==
    /\ LearnThrew
    /\ isInitialized
    /\ storage.kind = "json"
    /\ last.category = "simple"
    /\ setHas(brain.simpleNgrams, <<"hello", Space, "world">>)
    /\ ~setHas(storage.simpleNgrams, <<"hello", Space, "world">>)
    /\ classify(brain, isInitialized, <<"hello", Space, "world">>) = "simple"
    /\ classify(Restarted, TRUE, <<"hello", Space, "world">>) = "complex"

(***************************************************************************)
(* C13.  An error while a message is handled does not leave the controller *)
(* stuck: once no handleSendMessage call is under way, isBotThinking is    *)
(* false and the send button is enabled, so the next message is accepted.  *)
(***************************************************************************)
C13_RouterAcceptsNextMessage ==
    (session = "ready" /\ pending = <<>>) => (~isBotThinking /\ ~sendBtnDisabled)

(***************************************************************************)
(* C16.  When the stored item does not parse, init ends with the           *)
(* exception: it builds no seed brain and leaves the item as it is; the    *)
(* gatekeeper stays uninitialized for the rest of the session, and every   *)
(* classify of the session answers "complex".                              *)
(***************************************************************************)
InitOnMalformedItem ==
    /\ session = "loading"
    /\ storage.kind = "malformed"
    /\ session' = "ready"

Opposite(category) == IF category = "simple" THEN "complex" ELSE "simple"

FeedbackLearns == learnCount' = learnCount + 1 /\ pending = <<>>

C17_FeedbackProtocol ==
    /\ [][FeedbackLearns =>
              /\ panel \in {"feedback", "teach"}
              /\ panel' = "hidden"
              /\ last'.op = "learnFromFeedback"
              /\ last'.text = lastQuery.text
              /\ lastQuery.text = chat.user
              /\ last'.category = Opposite(lastQuery.decision)
              /\ last'.category = "complex" => panel = "feedback"
              /\ last'.category = "simple" =>
                     /\ panel = "teach"
                     /\ Truthy(last'.response)
                     /\ \E input \in TeachInputs : last'.response = responseOf(input)]_vars
    /\ [][(panel = "feedback" /\ panel' = "teach") =>
              /\ Opposite(lastQuery.decision) = "simple"
              /\ teachQuery' = lastQuery.text
              /\ learnCount' = learnCount]_vars
    /\ []((panel = "teach") => (teachQuery = lastQuery.text /\ lastQuery.text = chat.user))

\* "world" was classified complex, rejected, and taught as simple with the reply "Hi!".
C17_Witness ==
    /\ isInitialized
    /\ lastQuery = [text |-> <<"world">>, decision |-> "complex"]
    /\ last = Call("learnFromFeedback", <<"world">>, "simple", "Hi!", "saved")
    /\ chat.system = Message("Got it! Learning a new response", <<"world">>)
    /\ panel = "hidden"

(***************************************************************************)
(* C18.  After the user has rejected the "simple" classification of a      *)
(* query, that is after the controller's learnFromFeedback(q, "complex"),  *)
(* classify(q) is "complex".                                               *)
(***************************************************************************)
RejectedSimple ==
    /\ session = "ready"
    /\ LearnedComplex
    /\ last.text = lastQuery.text
    /\ lastQuery.decision = "simple"
    /\ chat.system = Message("Understood!", <<>>)

C18_RejectedSimpleIsComplex ==
    RejectedSimple => classify(brain, isInitialized, lastQuery.text) = "complex"

(***************************************************************************)
(* C20.  As claimed: in every state after init, whether it bootstrapped    *)
(* from the seed or loaded a stored item, every word of every key of       *)
(* simpleResponses is in simpleVocab and every adjacent pair of words of   *)
(* every key is in simpleNgrams.                                           *)
(***************************************************************************)
KeyWordsKnown(b, k) == Range(splitWords(k)) \subseteq Range(b.simpleVocab)

KeyPairsKnown(b, k) == Range(bigramsOf(splitWords(k))) \subseteq Range(b.simpleNgrams)

C20_KeysAreCovered ==
    isInitialized =>
        \A k \in objKeys(brain.simpleResponses) : KeyWordsKnown(brain, k) /\ KeyPairsKnown(brain, k)

(***************************************************************************)
(* C20, amended.  In every state, every word of every key of               *)
(* simpleResponses is in simpleVocab.  Every adjacent pair of words of     *)
(* every key is in simpleNgrams, unless the run started from an item       *)
(* written by the version without n-grams: then this holds for the keys    *)
(* that item did not have.                                                 *)
(***************************************************************************)
\* The keys of the item stored by the version without n-grams.
LegacyKeys == objKeys(V1SeedItem.simpleResponses)

C20_KeysAreCoveredUnlessLegacy ==
    \A k \in objKeys(brain.simpleResponses) :
        /\ KeyWordsKnown(brain, k)
        /\ (origin # "loaded" \/ k \notin LegacyKeys) => KeyPairsKnown(brain, k)

\* "hello world" is a key taught in the run, with both words and the pair known.
C20_Witness ==
    /\ isInitialized
    /\ hasOwnProperty(brain.simpleResponses, <<"hello", Space, "world">>)
    /\ setHas(brain.simpleVocab, <<"world">>)
    /\ setHas(brain.simpleNgrams, <<"hello", Space, "world">>)
    /\ learnCount = MaxLearn

(***************************************************************************)
(* C19.  Single writer.  In every interleaving of the user's events and    *)
(* the server's answers, no classify and no learnFromFeedback call starts  *)
(* while an earlier learnFromFeedback call has statements left to run;     *)
(* and whenever a handler can start, the brain is not half updated: it is  *)
(* the one the stored item holds.                                          *)
(***************************************************************************)
LearnIncomplete == last.op = "learnFromFeedback" /\ last.result \in LearnPositions

StartsClassify == sends' = sends + 1

StartsLearn == last'.op = "learnFromFeedback" /\ last'.result = "at 232" /\ last.result # "at 232"

C19_SingleWriter ==
    /\ [][(StartsClassify \/ StartsLearn) => (~LearnIncomplete /\ session = "ready")]_vars
    /\ []((session = "ready" /\ storage.kind = "json") => Serialized(brain, storage))

\* A call made by the teach handler has updated the brain and not yet the item: no handler can start.
C19_Witness ==
    /\ session = "learning"
    /\ isInitialized
    /\ LearnAt("at 250")
    /\ last.category = "simple"
    /\ pending = <<>>
    /\ storage.kind = "json"
    /\ ~Serialized(brain, storage)
    /\ ~ENABLED (\E input \in UserInputs : SendSimple(input) \/ SendComplex(input))

(***************************************************************************)
(* C21.  vocab is a registry with dense indices: after every learning      *)
(* event, of either category, every word of the normalized text is         *)
(* registered, and in every reachable state the i-th registered word has   *)
(* index i-1, so the indices are exactly 0..n-1 without duplicates.        *)
(***************************************************************************)
DenseIndices(vocab) == \A i \in DOMAIN vocab : vocab[i].value = i - 1

C21_VocabRegistersEveryWord ==
    /\ DenseIndices(brain.vocab)
    /\ (LearnedSimple \/ LearnedComplex)
           => \A word \in Range(wordsOf(last.text)) : hasOwnProperty(brain.vocab, word)

(***************************************************************************)
(* C22.  Loading a stored record that lacks simpleNgrams or simpleVocab    *)
(* succeeds: the missing field becomes an empty set, the gatekeeper is     *)
(* initialized, and every key of the loaded simpleResponses is classified  *)
(* "simple".  The step from a record without simpleNgrams is init() on the *)
(* record of the version without n-grams; the same record with simpleVocab *)
(* taken away as well is loaded by loadBrain.                              *)
(***************************************************************************)
HasField(item, field) == field \in DOMAIN item

IsRecordItem(item) == item.kind = "json"

WithoutSimpleVocab(item) == [field \in (DOMAIN item) \ {"simpleVocab"} |-> item[field]]

LoadedFrom(item) == loadBrain(resetSets(constructedBrain), item)

KeysStaySimple(b, item) ==
    \A k \in objKeys(item.simpleResponses) : classify(b, TRUE, k) = "simple"

C22_OlderRecordLoads ==
    [][(IsRecordItem(storage) /\ ~HasField(storage, "simpleNgrams") /\ session = "loading")
          => /\ isInitialized'
             /\ session' = "ready"
             /\ brain'.simpleNgrams = <<>>
             /\ brain'.simpleVocab = setFromArray(storage.simpleVocab)
             /\ KeysStaySimple(brain', storage)
             /\ LET bare == WithoutSimpleVocab(storage)
                IN  /\ LoadedFrom(bare).simpleVocab = <<>>
                    /\ LoadedFrom(bare).simpleNgrams = <<>>
                    /\ KeysStaySimple(LoadedFrom(bare), bare)]_vars

\* The record of the version without n-grams was loaded: "hello there" is
\* a key, its pair is unknown, and it is simple by exact match.
C22_Witness ==
    /\ isInitialized
    /\ origin = "loaded"
    /\ last.op = "init"
    /\ brain.simpleNgrams = <<>>
    /\ brain.simpleVocab # <<>>
    /\ <<"hello", Space, "there">> \in objKeys(brain.simpleResponses)
    /\ classify(brain, isInitialized, <<"hello", Space, "there">>) = "simple"

(***************************************************************************)
(* C23.  Rule #3 of the README: a query that is not a key of               *)
(* simpleResponses and whose words are all in simpleVocab is classified    *)
(* "simple".                                                               *)
(***************************************************************************)
NoExactMatch(text) == normalizeText(text) \notin objKeys(brain.simpleResponses)

AllWordsKnown(text) == Range(wordsOf(text)) \subseteq Range(brain.simpleVocab)

AllPairsKnown(text) == pairsOf(text) \subseteq Range(brain.simpleNgrams)

RECURSIVE Strings(_)
Strings(n) ==
    IF n = 0 THEN {<<>>}
    ELSE Strings(n - 1) \cup
         {s \o <<a>> : s \in {u \in Strings(n - 1) : Len(u) = n - 1},
                       a \in {"HELLO", "hello", Space, "!"}}

\* Every string of up to MaxWords + 1 letters, blanks and punctuation marks,
\* and every text the model passes to the gatekeeper.
NormalizeIdempotent ==
    \A s \in Strings(MaxWords + 1) \cup Texts :
        normalizeText(normalizeText(s)) = normalizeText(s)

C24_NormalizeIsIdempotent ==
    /\ NormalizeIdempotent
    /\ \A k \in objKeys(brain.simpleResponses) : normalizeText(k) = k
    /\ \A i \in DOMAIN brain.memory : normalizeText(brain.memory[i].input) = brain.memory[i].input

\* "HELLO world!" is not a fixed point; it was taught and is stored under
\* and remembered as "hello world", which is one.
C24_Witness ==
    /\ LearnedSimple
    /\ Truthy(last.response)
    /\ last.text = <<"HELLO", Space, "world", "!">>
    /\ normalizeText(last.text) # last.text
    /\ <<"hello", Space, "world">> \in objKeys(brain.simpleResponses)
    /\ memoryHas(brain.memory, <<"hello", Space, "world">>)
    /\ <<"hello", Space, "!">> \in Strings(MaxWords + 1)
    /\ normalizeText(<<"hello", Space, "!">>) = <<"hello">>

(***************************************************************************)
(* C25.  Simple is stable: within a session simpleVocab, simpleNgrams and  *)
(* the keys of simpleResponses only grow and a query that classify calls   *)
(* "simple" on an initialized gatekeeper is still "simple" after any       *)
(* further step; and the brain that init() would load from the saved       *)
(* record calls every such query "simple" too.                             *)
(***************************************************************************)
SimpleNow(b, text) == classify(b, TRUE, text) = "simple"

C25_SimpleIsStable ==
    [][(isInitialized /\ (brain' # brain \/ storage' # storage))
          => /\ session' = "ready"
                 => /\ isInitialized'
                    /\ Range(brain.simpleVocab) \subseteq Range(brain'.simpleVocab)
                    /\ Range(brain.simpleNgrams) \subseteq Range(brain'.simpleNgrams)
                    /\ objKeys(brain.simpleResponses) \subseteq objKeys(brain'.simpleResponses)
                    /\ \A text \in Texts : SimpleNow(brain, text) => SimpleNow(brain', text)
             /\ session' = "loading"
                 => /\ storage' = storage
                    /\ \A text \in Texts : SimpleNow(brain, text) => SimpleNow(Restarted, text)]_vars

\* The seed key "hello there", whose pair the record of the version without
\* n-grams does not know, was simple before "hello world" was learned as
\* complex and the page was reloaded, and is simple in the reloaded session.
C25_Witness ==
    /\ isInitialized
    /\ origin = "loaded"
    /\ last.op = "init"
    /\ learnCount > 0
    /\ memoryHas(brain.memory, <<"hello", Space, "world">>)
    /\ SimpleNow(brain, <<"hello", Space, "there">>)
    /\ ~SimpleNow(brain, <<"hello", Space, "world">>)

(***************************************************************************)
(* C26.  simpleResponses is last-write-wins per normalized key: when a     *)
(* phrase taught before is taught again as "simple" with a non-empty       *)
(* response r2, getSimpleResponse of the phrase is then r2; a "simple"     *)
(* learning event without a response, or with an empty one, and every      *)
(* "complex" learning event leave simpleResponses as it was.               *)
(***************************************************************************)
C26_LastWriteWins ==
    [][\A p \in Phrases, r \in Responses :
          /\ (LearnFromFeedback(p, "simple", r) /\ Truthy(r) /\ normalizeText(p) \in TaughtKeys)
                 => getSimpleResponse(brain', p) = r
          /\ ((LearnFromFeedback(p, "simple", r) /\ ~Truthy(r)) \/ LearnFromFeedback(p, "complex", r))
                 => brain'.simpleResponses = brain.simpleResponses]_vars

(***************************************************************************)
(* C27.  A "simple" learning event without a response still teaches the    *)
(* classifier: after it, on an initialized gatekeeper, all words of the    *)
(* phrase are in simpleVocab and all its adjacent pairs in simpleNgrams,   *)
(* classify calls the phrase "simple", simpleResponses is as before, and   *)
(* getSimpleResponse of the phrase is the fallback text unless the phrase  *)
(* is a key of simpleResponses.                                            *)
(***************************************************************************)
C27_LearningWithoutResponse ==
    [][\A p \in Phrases :
          (isInitialized /\ LearnFromFeedback(p, "simple", Null))
              => /\ AllWordsKnown(p)'
                 /\ AllPairsKnown(p)'
                 /\ classify(brain', isInitialized', p) = "simple"
                 /\ brain'.simpleResponses = brain.simpleResponses
                 /\ NoExactMatch(p)' => getSimpleResponse(brain', p) = Fallback]_vars

(***************************************************************************)
(* C28.  classify and getSimpleResponse are read-only: a step that is a    *)
(* call of either leaves vocab, simpleVocab, simpleNgrams, simpleResponses,*)
(* memory, isInitialized and the persisted record as they were; within a   *)
(* session the brain, isInitialized and the record change only in steps    *)
(* that are calls of init or learnFromFeedback.                            *)
(***************************************************************************)
ReadCalled == last'.op \in {"classify", "getSimpleResponse"}

WriteCalled == last'.op \in {"init", "learnFromFeedback"}

C28_ReadsAreReadOnly ==
    [][/\ ReadCalled
           => /\ brain'.vocab = brain.vocab
              /\ brain'.simpleVocab = brain.simpleVocab
              /\ brain'.simpleNgrams = brain.simpleNgrams
              /\ brain'.simpleResponses = brain.simpleResponses
              /\ brain'.memory = brain.memory
              /\ isInitialized' = isInitialized
              /\ storage' = storage
       /\ (session' = "ready" /\ <<brain, isInitialized, storage>>' # <<brain, isInitialized, storage>>)
           => WriteCalled]_vars

\* classify answered "complex" for "world hello" although both words are known
\* after "hello world" was learned: a call that could have registered the pair.
C28_Witness ==
    /\ isInitialized
    /\ Classified(<<"world", Space, "hello">>, "complex")
    /\ AllWordsKnown(<<"world", Space, "hello">>)
    /\ ~AllPairsKnown(<<"world", Space, "hello">>)

(***************************************************************************)
(* C29.  At most one message is in flight in the router: while             *)
(* isBotThinking is true a send event starts nothing, so no step taken     *)
(* then accepts a message, calls the server or changes lastQuery; a        *)
(* request goes to the server only when none is outstanding; and lastQuery *)
(* is always the message shown last in the chat, the one in flight or the  *)
(* last completed one.                                                     *)
(***************************************************************************)
SendIsDropped ==
    \A input \in UserInputs : ~ENABLED SendSimple(input) /\ ~ENABLED SendComplex(input)

C29_OneMessageInFlight ==
    /\ []((session = "ready" /\ isBotThinking) => SendIsDropped)
    /\ [](pending # <<>> => (isBotThinking /\ pending = lastQuery.text))
    /\ [](session = "ready" => lastQuery.text = chat.user)
    /\ [][(isBotThinking /\ session' = session)
              => (lastQuery' = lastQuery /\ sends' = sends /\ serverCalls' = serverCalls)]_vars
    /\ [][serverCalls' # serverCalls
              => (pending = <<>> /\ pending' # <<>> /\ serverCalls' = serverCalls + 1)]_vars

\* A second message is with the server; the first one was answered locally.
C29_Witness ==
    /\ session = "ready"
    /\ isBotThinking
    /\ sends = 2
    /\ serverCalls = 1
    /\ pending = <<"world">>
    /\ lastQuery = [text |-> <<"world">>, decision |-> "complex"]
    /\ SendIsDropped

====
